---- MODULE Spec2Model ----
(***************************************************************************)
(* VideoMerger: a linear pipeline that concatenates source videos with a   *)
(* generated title-card clip between consecutive videos.                   *)
(*                                                                         *)
(* The repository holds two revisions of the program, src/video_merger.go  *)
(* and src/unnamed/part_000.  Both are modelled; the variable `variant`    *)
(* says which one a run executes.                                          *)
(***************************************************************************)
EXTENDS Integers, Sequences, FiniteSets, TLC

(***************************************************************************)
(* Strings.  A Go string is a TLA+ string; bytes are one-character         *)
(* strings, ordered by their position in Ascii (the byte order that        *)
(* sort.Strings and the < of Go strings use).                              *)
(***************************************************************************)
Ascii == " #+-./0123456789ABCDEFGHIJKLMNOPQRSTUVWXYZ_abcdefghijklmnopqrstuvwxyz"

Upper == "ABCDEFGHIJKLMNOPQRSTUVWXYZ"

Lower == "abcdefghijklmnopqrstuvwxyz"

HexDigits == "0123456789abcdef"

CharAt(s, k) == SubSeq(s, k, k)

\* The 1-based index of byte c in alphabet, 0 when it is not there.
RECURSIVE IndexFrom(_, _, _)
IndexFrom(c, alphabet, k) ==
    IF k > Len(alphabet) THEN 0
    ELSE IF CharAt(alphabet, k) = c THEN k
    ELSE IndexFrom(c, alphabet, k + 1)

IndexIn(c, alphabet) == IndexFrom(c, alphabet, 1)

Ord(c) == IndexIn(c, Ascii)

LowerAt(c, k) == IF k > 0 THEN CharAt(Lower, k) ELSE c

ToLowerChar(c) == LowerAt(c, IndexIn(c, Upper))

RECURSIVE ToLower(_)
ToLower(s) ==
    IF Len(s) = 0 THEN ""
    ELSE ToLowerChar(CharAt(s, 1)) \o ToLower(SubSeq(s, 2, Len(s)))

\* s < t for Go strings: bytewise lexicographic order.
RECURSIVE StrLess(_, _)
StrLess(s, t) ==
    IF Len(t) = 0 THEN FALSE
    ELSE IF Len(s) = 0 THEN TRUE
    ELSE IF CharAt(s, 1) = CharAt(t, 1)
         THEN StrLess(SubSeq(s, 2, Len(s)), SubSeq(t, 2, Len(t)))
         ELSE Ord(CharAt(s, 1)) < Ord(CharAt(t, 1))

HasPrefix(s, p) == Len(s) >= Len(p) /\ SubSeq(s, 1, Len(p)) = p

TrimPrefix(s, p) == IF HasPrefix(s, p) THEN SubSeq(s, Len(p) + 1, Len(s)) ELSE s

(***************************************************************************)
(* fmt.Sscanf with the verbs %02x: the part of Go's scanner that the two   *)
(* colour parsers reach.  A position is a 1-based index of the next        *)
(* unread byte.                                                            *)
(***************************************************************************)
IsHexDigit(c) == IndexIn(ToLowerChar(c), HexDigits) > 0

HexVal(c) == IndexIn(ToLowerChar(c), HexDigits) - 1

RECURSIVE SkipSpace(_, _)
SkipSpace(s, p) ==
    IF p <= Len(s) /\ CharAt(s, p) = " " THEN SkipSpace(s, p + 1) ELSE p

\* One %02x verb: leading spaces are skipped before the width applies; at most
\* two bytes are read: an optional sign, then at least one hex digit.
ScanLimit(s, p) == IF p + 2 <= Len(s) + 1 THEN p + 2 ELSE Len(s) + 1

HasSign(s, p, lim) == p < lim /\ CharAt(s, p) \in {"+", "-"}

\* How many hex digits (0, 1 or 2) the verb reads from p, below lim.
NumDigits(s, p, lim) ==
    IF p < lim /\ IsHexDigit(CharAt(s, p))
    THEN IF p + 1 < lim /\ IsHexDigit(CharAt(s, p + 1)) THEN 2 ELSE 1
    ELSE 0

Magnitude(s, p, n) ==
    IF n = 2 THEN 16 * HexVal(CharAt(s, p)) + HexVal(CharAt(s, p + 1))
    ELSE IF n = 1 THEN HexVal(CharAt(s, p))
    ELSE 0

ScanResult(neg, mag, n, p) ==
    [ok |-> n > 0, val |-> IF neg THEN 0 - mag ELSE mag, next |-> p + n]

ScanDigits(s, p, n, neg) == ScanResult(neg, Magnitude(s, p, n), n, p)

ScanNumber(s, p, lim, neg) == ScanDigits(s, p, NumDigits(s, p, lim), neg)

ScanSigned(s, p, lim, signd) ==
    ScanNumber(s, IF signd THEN p + 1 ELSE p, lim, signd /\ CharAt(s, p) = "-")

ScanWithin(s, p, lim) == ScanSigned(s, p, lim, HasSign(s, p, lim))

ScanAfterSpace(s, p) == ScanWithin(s, p, ScanLimit(s, p))

ScanHex2(s, p) == ScanAfterSpace(s, SkipSpace(s, p))

ScanFailed == [ok |-> FALSE, val |-> 0, next |-> 0]

\* Sscanf(s[p..], "%02x%02x%02x", &r, &g, &b): the verbs run in order and the
\* scan stops at the first that fails; a target is assigned only when its
\* verb succeeds, so r, g, b keep their zero value otherwise.
ScanOutcome(a, b, c) ==
    [r |-> a.val, g |-> b.val, b |-> c.val, err |-> ~(a.ok /\ b.ok /\ c.ok)]

ScanThird(s, a, b) ==
    ScanOutcome(a, b, IF b.ok THEN ScanHex2(s, b.next) ELSE ScanFailed)

ScanSecond(s, a) ==
    ScanThird(s, a, IF a.ok THEN ScanHex2(s, a.next) ELSE ScanFailed)

Sscanf3(s, p) == ScanSecond(s, ScanHex2(s, p))

\* uint8(x) of an int.
Uint8(x) == x % 256

RGBA(r, g, b, a) == <<r, g, b, a>>

Black == RGBA(0, 0, 0, 255)

ScannedColour(sc) == RGBA(Uint8(sc.r), Uint8(sc.g), Uint8(sc.b), 255)

\* hexToRGBA: the literal '#' must match, then the three verbs; the scan's
\* error is dropped and whatever was scanned is returned.
hexToRGBA(hex) ==
    ScannedColour(IF Len(hex) >= 1 /\ CharAt(hex, 1) = "#"
                  THEN Sscanf3(hex, 2)
                  ELSE ScanOutcome(ScanFailed, ScanFailed, ScanFailed))

FallbackOnError(sc) == IF sc.err THEN Black ELSE ScannedColour(sc)

TrimmedToRGBA(h) == IF Len(h) = 6 THEN FallbackOnError(Sscanf3(h, 1)) ELSE Black

hexToRGBA2(hex) == TrimmedToRGBA(TrimPrefix(hex, "#"))

(***************************************************************************)
(* Paths: filepath.Ext, filepath.Base, filepath.Clean, Sprintf's %d, %05d. *)
(***************************************************************************)
\* The index of the last byte of s equal to c, scanning back from k and
\* stopping at a path separator when stopAtSep; 0 when there is none.
RECURSIVE LastIndexFrom(_, _, _, _)
LastIndexFrom(s, c, k, stopAtSep) ==
    IF k = 0 THEN 0
    ELSE IF CharAt(s, k) = c THEN k
    ELSE IF stopAtSep /\ CharAt(s, k) = "/" THEN 0
    ELSE LastIndexFrom(s, c, k - 1, stopAtSep)

\* filepath.Ext: the suffix from the last dot of the last path element.
SuffixFrom(path, k) == IF k = 0 THEN "" ELSE SubSeq(path, k, Len(path))

Ext(path) == SuffixFrom(path, LastIndexFrom(path, ".", Len(path), TRUE))

\* filepath.Base of a path with no trailing separator.
Base(path) ==
    IF Len(path) = 0 THEN "."
    ELSE SubSeq(path, LastIndexFrom(path, "/", Len(path), FALSE) + 1, Len(path))

\* filepath.Clean on the paths a walk yields: a leading "./" is dropped (the
\* walked paths hold no "..", no doubled and no trailing separator).
RECURSIVE Clean(_)
Clean(path) ==
    IF HasPrefix(path, "./") /\ Len(path) > 2
    THEN Clean(SubSeq(path, 3, Len(path)))
    ELSE path

RECURSIVE Itoa(_)
Itoa(n) ==
    IF n < 10 THEN CharAt("0123456789", n + 1)
    ELSE Itoa(n \div 10) \o CharAt("0123456789", (n % 10) + 1)

RECURSIVE ZeroPad(_, _)
ZeroPad(s, width) == IF Len(s) >= width THEN s ELSE ZeroPad("0" \o s, width)

FrameWidth == 5

\* Faulty variant: %d in place of %05d.
FramePathNoPad(dir, i, j) ==
    dir \o "/text_" \o Itoa(i) \o "_frame_" \o Itoa(j) \o ".png"

\* Sprintf("%s/text_%d_frame_%05d.png", dir, i, j)
FramePath(dir, i, j) ==
    dir \o "/text_" \o Itoa(i) \o "_frame_" \o ZeroPad(Itoa(j), FrameWidth) \o ".png"

\* Sprintf("text_transition_%d.mp4", i)
TextVideo(i) == "text_transition_" \o Itoa(i) \o ".mp4"

\* Sprintf("file '%s'\n", name)
FileLine(name) == "file '" \o name \o "'\n"

(***************************************************************************)
(* sort.Strings: the ascending rearrangement (insertion sort).             *)
(***************************************************************************)
RECURSIVE InsertSorted(_, _)
InsertSorted(x, s) ==
    IF Len(s) = 0 THEN <<x>>
    ELSE IF StrLess(Head(s), x) THEN <<Head(s)>> \o InsertSorted(x, Tail(s))
    ELSE <<x>> \o s

RECURSIVE SortStrings(_)
SortStrings(s) ==
    IF Len(s) = 0 THEN <<>> ELSE InsertSorted(Head(s), SortStrings(Tail(s)))

(***************************************************************************)
(* getVideoFiles.  A walk is the sequence of entries in the order the      *)
(* callback sees them; an entry is [path, isDir].                          *)
(***************************************************************************)
AllowedExt == {".mp4", ".mov", ".avi", ".mkv"}

\* The walk callback on one entry: what it appends.
Visit(d, clean) ==
    IF ~d.isDir /\ ToLower(Ext(d.path)) \in AllowedExt
    THEN << IF clean THEN Clean(d.path) ELSE d.path >>
    ELSE <<>>

\* The callback's appends, in visiting order.
RECURSIVE WalkAppend(_, _)
WalkAppend(walk, clean) ==
    IF Len(walk) = 0 THEN <<>>
    ELSE Visit(Head(walk), clean) \o WalkAppend(Tail(walk), clean)

\* Faulty variant: the sort.Strings before the return is missing.
getVideoFilesNoSort(walk, walkErr, clean) ==
    IF walkErr THEN [videos |-> <<>>, err |-> TRUE]
    ELSE [videos |-> WalkAppend(walk, clean), err |-> FALSE]

\* clean: video_merger.go appends filepath.Clean(path), part_000 the path.
getVideoFiles(walk, walkErr, clean) ==
    IF walkErr THEN [videos |-> <<>>, err |-> TRUE]
    ELSE [videos |-> SortStrings(WalkAppend(walk, clean)), err |-> FALSE]



(***************************************************************************)
(* State.                                                                  *)
(*   hexIn, hexOut, hexOut2   an input of the colour parsers, their results*)
(*   scanTree, scanWalk,      a directory, the order it was walked in and  *)
(*   scanOut                  getVideoFiles' result                        *)
(*   the rest                 one run of main                              *)
(***************************************************************************)
VARIABLES hexIn, hexOut, hexOut2, scanTree, scanWalk, scanOut,
          variant,      \* the revision that runs
          cfg,          \* the parsed config.json
          srcTree,      \* the entries under ./source
          fs, fs0,      \* the filesystem: path -> file; fs0 is fs before the run
          pc,           \* main's position
          videos, output, textColor, bgColor,
          fi, fj,       \* the frame loops' i and j
          li,           \* the file list loop's i
          listName,     \* tempFile.Name()
          defers,       \* the deferred calls, last registered last
          calls,        \* history: the external invocations, in order
          encOk,        \* history: the transitions whose encode returned nil
          rendered,     \* history: the frames saved, in order
          wrote,        \* history: the file list lines written, in order, each
                        \* with the transition it names (0 for a source video)
          concatInput,  \* history: the file list's content when concat ran
          synced,       \* history: tempFile.Sync() returned nil
          printed,      \* history: the success message was printed
          failed,       \* history: some step failed
          deleted,      \* history: the paths the run removed
          scanned       \* history: ./source was walked

hexVars == <<hexIn, hexOut, hexOut2>>

scanVars == <<scanTree, scanWalk, scanOut>>

mainVars == <<variant, cfg, srcTree, fs, fs0, pc, videos, output, textColor,
              bgColor, fi, fj, li, listName, defers, calls, encOk, rendered,
              wrote, concatInput, synced, printed, failed, deleted, scanned>>

vars == <<hexVars, scanVars, mainVars>>

None == <<>>

(***************************************************************************)
(* The filesystem: a function from the paths that exist to                 *)
(* [by, kind, data]; by is "user" for what was there before the run and    *)
(* "run" for what the run (or the tool it invoked) wrote.                  *)
(***************************************************************************)
File(by, kind, data) == [by |-> by, kind |-> kind, data |-> data]

Exists(f, path) == path \in DOMAIN f

WriteFile(f, path, file) ==
    [q \in DOMAIN f \cup {path} |-> IF q = path THEN file ELSE f[q]]

\* os.Remove of a file; a missing path is an error the code ignores.
Remove(f, path) == [q \in DOMAIN f \ {path} |-> f[q]]

Under(dir, path) == path = dir \/ HasPrefix(path, dir \o "/")

\* os.RemoveAll: the path and everything under it.
RemoveAll(f, dir) == [q \in {x \in DOMAIN f : ~Under(dir, x)} |-> f[q]]

\* os.MkdirAll on a path that is absent or a directory.
MkdirAll(f, dir) ==
    IF Exists(f, dir) THEN f ELSE WriteFile(f, dir, File("run", "dir", <<>>))

\* tempFile.WriteString: appends a line to the open file.
AppendLine(f, path, line) ==
    WriteFile(f, path, [f[path] EXCEPT !.data = Append(@, line)])

(***************************************************************************)
(* Bounds and the configurations and environments explored.                *)
(***************************************************************************)
MaxVideos == 3

MaxRate == 2

MaxDuration == 1

MaxTree == 3

NewRev == "video_merger.go"

OldRev == "part_000"

VideoNames == {"b.mp4", "text_transition_1.mp4", "tmp/a.mp4", "Z.mkv"}

Injective(s) == \A a, b \in DOMAIN s : a # b => s[a] # s[b]

SeqsOver(S, n) == {s \in [1..n -> S] : Injective(s)}

SourceLists == UNION {SeqsOver(VideoNames, n) : n \in 0..MaxVideos}

\* The directory ./source: its root and the entries under it.
Root == [path |-> "./source", isDir |-> TRUE]

TreeUniverse ==
    { [path |-> "source/b.mp4",       isDir |-> FALSE],
      [path |-> "source/A.MOV",       isDir |-> FALSE],
      [path |-> "source/c.txt",       isDir |-> FALSE],
      [path |-> "source/d.mkv",       isDir |-> TRUE],
      [path |-> "source/d.mkv/e.Avi", isDir |-> FALSE],
      [path |-> "source/f",           isDir |-> FALSE],
      [path |-> "source/g.mp4.bak",   isDir |-> FALSE] }

ParentPresent(t, e) ==
    HasPrefix(e.path, "source/d.mkv/") =>
        [path |-> "source/d.mkv", isDir |-> TRUE] \in t

Trees ==
    { t \cup {Root} : t \in { u \in SUBSET TreeUniverse :
                                /\ Cardinality(u) <= MaxTree
                                /\ \A e \in u : ParentPresent(u, e) } }

MainTrees ==
    { {Root},
      {Root, [path |-> "source/b.mp4", isDir |-> FALSE],
             [path |-> "source/A.MOV", isDir |-> FALSE],
             [path |-> "source/c.txt", isDir |-> FALSE]} }

Walks(t) == SeqsOver(t, Cardinality(t))

Configs ==
    { [Source |-> src, Rate |-> r, Duration |-> d, Color |-> "#ff1111",
       Background |-> "#ff", Dir |-> "tmp", Output |-> out] :
      src \in SourceLists, r \in (0 - 1)..MaxRate, d \in 0..MaxDuration,
      out \in {"out.mp4"} }

\* What is on disk before the run: the source videos, and possibly the
\* intermediate directory (with a file of the user's in it) and a filelist.txt.
InitialPaths(c, t, dirPre, listPre) ==
    LET vids == {c.Source[k] : k \in DOMAIN c.Source}
                  \cup {Clean(e.path) : e \in {x \in t : ~x.isDir}}
    IN  vids
        \cup (IF dirPre # "absent" \/ \E v \in vids : Under(c.Dir, v)
              THEN {c.Dir} ELSE {})
        \cup (IF dirPre = "withFile" THEN {c.Dir \o "/keep.txt"} ELSE {})
        \cup (IF listPre THEN {"filelist.txt"} ELSE {})

InitialFs(c, t, dirPre, listPre) ==
    [q \in InitialPaths(c, t, dirPre, listPre) |->
        File("user", IF q = c.Dir THEN "dir" ELSE "file", <<q>>)]

HexIdle == hexIn = "" /\ hexOut = None /\ hexOut2 = None

ScanIdle == scanTree = {} /\ scanWalk = None /\ scanOut = None

MainIdle ==
    /\ variant = NewRev /\ cfg = None /\ srcTree = {} /\ fs = None /\ fs0 = None
    /\ pc = "idle" /\ videos = <<>> /\ output = "" /\ textColor = None
    /\ bgColor = None /\ fi = 0 /\ fj = 0 /\ li = 0 /\ listName = ""
    /\ defers = <<>> /\ calls = <<>> /\ encOk = {} /\ rendered = <<>>
    /\ wrote = <<>> /\ concatInput = None /\ synced = FALSE /\ printed = FALSE /\ failed = FALSE
    /\ deleted = {} /\ scanned = FALSE

Init ==
    /\ HexIdle /\ ScanIdle
    /\ variant \in {NewRev, OldRev}
    /\ cfg \in Configs
    /\ srcTree \in (IF Len(cfg.Source) = 0 THEN MainTrees ELSE {{Root}})
    /\ \E dirPre \in {"absent", "empty", "withFile"}, listPre \in BOOLEAN :
          /\ listPre => variant = OldRev
          /\ fs = InitialFs(cfg, srcTree, dirPre, listPre)
    /\ fs0 = fs
    /\ pc = "readConfig"
    /\ videos = <<>> /\ output = "" /\ textColor = None /\ bgColor = None
    /\ fi = 0 /\ fj = 0 /\ li = 0 /\ listName = ""
    /\ defers = <<>> /\ calls = <<>> /\ encOk = {} /\ rendered = <<>>
    /\ wrote = <<>> /\ concatInput = None /\ synced = FALSE /\ printed = FALSE /\ failed = FALSE
    /\ deleted = {} /\ scanned = FALSE


(***************************************************************************)
(* main, one action per step.  A step that fails prints its error and      *)
(* returns: the deferred calls run and the process exits.                  *)
(***************************************************************************)
N == Len(videos)

NumFrames == cfg.Rate * cfg.Duration

\* return after an error
Abort == pc' = "defers" /\ failed' = TRUE

\* output: the configured path, or a name made from the clock.
OutputPath(c) ==
    IF c.Output = "" THEN "./dest/output_01_01_2025_00_00_00.mp4" ELSE c.Output

\* videos after "Load Videos": video_merger.go sorts whatever it loaded,
\* part_000 keeps the list it was given or the scan's result.
ResolveVideos(rev, source, found) ==
    LET loaded == IF Len(source) = 0 THEN found ELSE source
    IN  IF rev = NewRev THEN SortStrings(loaded) ELSE loaded

\* The title of transition i (Go's i; videos[i] is the TLA+ videos[i + 1]).
TitleText(rev, video) ==
    "Next: " \o (IF rev = NewRev THEN Base(video) ELSE video)

Image(i) ==
    [bg |-> bgColor, fg |-> textColor, text |-> TitleText(variant, videos[i + 1])]

\* The frames ffmpeg's image sequence reader finds for transition i: those
\* numbered 0, 1, ... up to the first missing number.
RECURSIVE FramesFrom(_, _, _, _)
FramesFrom(f, dir, i, j) ==
    IF Exists(f, FramePath(dir, i, j))
    THEN <<f[FramePath(dir, i, j)].data>> \o FramesFrom(f, dir, i, j + 1)
    ELSE <<>>

\* Faulty variant: the guard i > 0 is missing, so the first video gets a
\* transition too.
LoopHeadAll(i) == IF i >= N THEN "sync" ELSE "encode"

\* The loop head of the file list loop at index i.
LoopHead(i) == IF i >= N THEN "sync" ELSE IF i > 0 THEN "encode" ELSE "writeV"

ReadConfig ==
    /\ pc = "readConfig"
    /\ \E ok \in BOOLEAN :
         IF ok THEN pc' = "parseConfig" /\ UNCHANGED failed ELSE Abort
    /\ UNCHANGED <<synced, hexVars, scanVars, variant, cfg, srcTree, fs, fs0, videos, output, textColor,
                   bgColor, fi, fj, li, listName, defers, calls, encOk,
                   rendered, wrote, concatInput, printed, deleted, scanned>>

\* json.Unmarshal, then the output path; part_000 parses the colours here.
ParseConfig ==
    /\ pc = "parseConfig"
    /\ \E ok \in BOOLEAN :
         IF ok
         THEN /\ pc' = "loadVideos"
              /\ output' = OutputPath(cfg)
              /\ IF variant = OldRev
                 THEN /\ textColor' = hexToRGBA(cfg.Color)
                      /\ bgColor' = hexToRGBA(cfg.Background)
                 ELSE UNCHANGED <<textColor, bgColor>>
              /\ UNCHANGED failed
         ELSE Abort /\ UNCHANGED <<output, textColor, bgColor>>
    /\ UNCHANGED <<synced, hexVars, scanVars, variant, cfg, srcTree, fs, fs0, videos, fi, fj, li,
                   listName, defers, calls, encOk, rendered, wrote,
                   concatInput, printed, deleted, scanned>>

LoadVideos ==
    /\ pc = "loadVideos"
    /\ IF Len(cfg.Source) = 0
       THEN \E walk \in Walks(srcTree), walkErr \in BOOLEAN :
              LET r == getVideoFiles(walk, walkErr, variant = NewRev)
              IN  /\ scanned' = TRUE
                  /\ IF r.err
                     THEN Abort /\ UNCHANGED videos
                     ELSE /\ videos' = ResolveVideos(variant, cfg.Source, r.videos)
                          /\ pc' = "mkdir"
                          /\ UNCHANGED failed
       ELSE /\ videos' = ResolveVideos(variant, cfg.Source, <<>>)
            /\ pc' = "mkdir"
            /\ UNCHANGED <<failed, scanned>>
    /\ UNCHANGED <<synced, hexVars, scanVars, variant, cfg, srcTree, fs, fs0, output, textColor, bgColor,
                   fi, fj, li, listName, defers, calls, encOk, rendered, wrote,
                   concatInput, printed, deleted>>

MkdirIntermediate ==
    /\ pc = "mkdir"
    /\ \E ok \in BOOLEAN :
         IF ok
         THEN /\ fs' = MkdirAll(fs, cfg.Dir)
              /\ defers' = Append(defers, [op |-> "RemoveAll", path |-> cfg.Dir])
              /\ pc' = "loadFont"
              /\ UNCHANGED failed
         ELSE Abort /\ UNCHANGED <<fs, defers>>
    /\ UNCHANGED <<synced, hexVars, scanVars, variant, cfg, srcTree, fs0, videos, output, textColor,
                   bgColor, fi, fj, li, listName, calls, encOk, rendered,
                   wrote, concatInput, printed, deleted, scanned>>

\* gg.LoadFontFace; video_merger.go parses the colours after it.
LoadFont ==
    /\ pc = "loadFont"
    /\ \E ok \in BOOLEAN :
         IF ok
         THEN /\ pc' = "frames"
              /\ fi' = 1
              /\ fj' = 0
              /\ IF variant = NewRev
                 THEN /\ textColor' = hexToRGBA(cfg.Color)
                      /\ bgColor' = hexToRGBA(cfg.Background)
                 ELSE UNCHANGED <<textColor, bgColor>>
              /\ UNCHANGED failed
         ELSE Abort /\ UNCHANGED <<fi, fj, textColor, bgColor>>
    /\ UNCHANGED <<synced, hexVars, scanVars, variant, cfg, srcTree, fs, fs0, videos, output, li,
                   listName, defers, calls, encOk, rendered, wrote,
                   concatInput, printed, deleted, scanned>>

\* One pass of the inner frame loop: draw the title card and SavePNG it.
RenderFrame ==
    /\ pc = "frames"
    /\ fi < N
    /\ fj < NumFrames
    /\ \E ok \in BOOLEAN :
         IF ok
         THEN /\ fs' = WriteFile(fs, FramePath(cfg.Dir, fi, fj),
                                 File("run", "frame", Image(fi)))
              /\ rendered' = Append(rendered,
                     [i |-> fi, j |-> fj, path |-> FramePath(cfg.Dir, fi, fj),
                      img |-> Image(fi)])
              /\ IF fj + 1 < NumFrames
                 THEN fj' = fj + 1 /\ UNCHANGED fi
                 ELSE fj' = 0 /\ fi' = fi + 1
              /\ UNCHANGED <<pc, failed>>
         ELSE Abort /\ UNCHANGED <<fs, rendered, fi, fj>>
    /\ UNCHANGED <<synced, hexVars, scanVars, variant, cfg, srcTree, fs0, videos, output, textColor,
                   bgColor, li, listName, defers, calls, encOk, wrote,
                   concatInput, printed, deleted, scanned>>

\* The frame loops are over: no video is left, or no frame is to be drawn.
FramesDone ==
    /\ pc = "frames"
    /\ fi >= N \/ NumFrames <= 0
    /\ pc' = "createList"
    /\ UNCHANGED <<synced, hexVars, scanVars, variant, cfg, srcTree, fs, fs0, videos, output, textColor,
                   bgColor, fi, fj, li, listName, defers, calls, encOk,
                   rendered, wrote, concatInput, printed, failed, deleted,
                   scanned>>

\* video_merger.go: os.CreateTemp, a new file; defer Remove, then defer Close.
\* part_000: os.Create("filelist.txt"), which truncates; defer Close, then
\* defer Remove.
ListPath(rev) == IF rev = NewRev THEN "/tmp/filelist_1.txt" ELSE "filelist.txt"

ListDefers(rev, name) ==
    IF rev = NewRev
    THEN <<[op |-> "Remove", path |-> name], [op |-> "Close", path |-> name]>>
    ELSE <<[op |-> "Close", path |-> name], [op |-> "Remove", path |-> name]>>

CreateFileList ==
    /\ pc = "createList"
    /\ \E ok \in BOOLEAN :
         IF ok
         THEN /\ listName' = ListPath(variant)
              /\ fs' = WriteFile(fs, ListPath(variant), File("run", "filelist", <<>>))
              /\ defers' = defers \o ListDefers(variant, ListPath(variant))
              /\ li' = 0
              /\ pc' = LoopHead(0)
              /\ UNCHANGED failed
         ELSE Abort /\ UNCHANGED <<listName, fs, defers, li>>
    /\ UNCHANGED <<synced, hexVars, scanVars, variant, cfg, srcTree, fs0, videos, output, textColor,
                   bgColor, fi, fj, calls, encOk, rendered, wrote,
                   concatInput, printed, deleted, scanned>>

\* Faulty variant: os.Remove(textVideo) without the defer.
EncodeOkEagerRemove ==
    /\ fs' = Remove(fs, TextVideo(li))
    /\ encOk' = encOk \cup {li}
    /\ pc' = "writeT"
    /\ UNCHANGED <<failed, defers>>

\* cmd.Run() returned nil: the clip is written, its removal deferred.
EncodeOk ==
    /\ fs' = WriteFile(fs, TextVideo(li),
                       File("run", "clip", FramesFrom(fs, cfg.Dir, li, 0)))
    /\ encOk' = encOk \cup {li}
    /\ defers' = Append(defers, [op |-> "Remove", path |-> TextVideo(li)])
    /\ pc' = "writeT"
    /\ UNCHANGED failed

\* Faulty variant: the error of cmd.Run() is not looked at.
EncodeFailPartialIgnored ==
    /\ fs' = WriteFile(fs, TextVideo(li), File("run", "partial", <<>>))
    /\ pc' = "writeT"
    /\ UNCHANGED <<failed, encOk, defers>>

\* cmd.Run() returned an error and the tool left a partial clip behind.
EncodeFailPartial ==
    /\ fs' = WriteFile(fs, TextVideo(li), File("run", "partial", <<>>))
    /\ Abort
    /\ UNCHANGED <<encOk, defers>>

\* Faulty variant: the error is printed and the return is missing.
EncodeFailNoneNoReturn ==
    /\ failed' = TRUE
    /\ pc' = "writeT"
    /\ UNCHANGED <<fs, encOk, defers>>

\* cmd.Run() returned an error and no clip was written.
EncodeFailNone ==
    /\ Abort
    /\ UNCHANGED <<fs, encOk, defers>>

\* ffmpeg -y -framerate R -i <pattern i> ... text_transition_<i>.mp4, run to
\* its end.  The tool's exit is the environment's: nil with the clip written,
\* or an error with or without a partial clip left.  The removal of the clip
\* is deferred only after a nil return.
EncodeTransition ==
    /\ pc = "encode"
    /\ calls' = Append(calls, [tool |-> "encode", i |-> li])
    /\ (EncodeOk \/ EncodeFailPartial \/ EncodeFailNone)
    /\ UNCHANGED <<synced, hexVars, scanVars, variant, cfg, srcTree, fs0, videos, output, textColor,
                   bgColor, fi, fj, li, listName, rendered, wrote,
                   concatInput, printed, deleted, scanned>>

WriteTransitionEntry ==
    /\ pc = "writeT"
    /\ \E ok \in BOOLEAN :
         IF ok
         THEN /\ fs' = AppendLine(fs, listName, FileLine(TextVideo(li)))
              /\ wrote' = Append(wrote, [line |-> FileLine(TextVideo(li)), transition |-> li])
              /\ pc' = "writeV"
              /\ UNCHANGED failed
         ELSE Abort /\ UNCHANGED <<fs, wrote>>
    /\ UNCHANGED <<synced, hexVars, scanVars, variant, cfg, srcTree, fs0, videos, output, textColor,
                   bgColor, fi, fj, li, listName, defers, calls, encOk,
                   rendered, concatInput, printed, deleted, scanned>>

WriteVideoEntry ==
    /\ pc = "writeV"
    /\ \E ok \in BOOLEAN :
         IF ok
         THEN /\ fs' = AppendLine(fs, listName, FileLine(videos[li + 1]))
              /\ wrote' = Append(wrote, [line |-> FileLine(videos[li + 1]), transition |-> 0])
              /\ li' = li + 1
              /\ pc' = LoopHead(li + 1)
              /\ UNCHANGED failed
         ELSE Abort /\ UNCHANGED <<fs, wrote, li>>
    /\ UNCHANGED <<synced, hexVars, scanVars, variant, cfg, srcTree, fs0, videos, output, textColor,
                   bgColor, fi, fj, listName, defers, calls, encOk, rendered,
                   concatInput, printed, deleted, scanned>>

SyncFileList ==
    /\ pc = "sync"
    /\ \E ok \in BOOLEAN :
         IF ok THEN pc' = "concat" /\ synced' = TRUE /\ UNCHANGED failed
         ELSE Abort /\ UNCHANGED synced
    /\ UNCHANGED <<hexVars, scanVars, variant, cfg, srcTree, fs, fs0, videos, output, textColor,
                   bgColor, fi, fj, li, listName, defers, calls, encOk,
                   rendered, wrote, concatInput, printed, deleted, scanned>>

\* cmd.Run() of the concat starts: ffmpeg reads the file list.
ConcatInvoke ==
    /\ pc = "concat"
    /\ calls' = Append(calls, [tool |-> "concat", i |-> 0])
    /\ concatInput' = fs[listName].data
    /\ pc' = "concatRunning"
    /\ UNCHANGED <<synced, hexVars, scanVars, variant, cfg, srcTree, fs, fs0, videos, output, textColor,
                   bgColor, fi, fj, li, listName, defers, encOk, rendered,
                   wrote, printed, failed, deleted, scanned>>

\* cmd.Run() of the concat returns; on nil the success message is printed.
ConcatReturn ==
    /\ pc = "concatRunning"
    /\ \E ok \in BOOLEAN :
         IF ok
         THEN /\ fs' = WriteFile(fs, output, File("run", "output", concatInput))
              /\ printed' = TRUE
              /\ pc' = "defers"
              /\ UNCHANGED failed
         ELSE Abort /\ UNCHANGED <<fs, printed>>
    /\ UNCHANGED <<synced, hexVars, scanVars, variant, cfg, srcTree, fs0, videos, output, textColor,
                   bgColor, fi, fj, li, listName, defers, calls, encOk,
                   rendered, wrote, concatInput, deleted, scanned>>

\* The effect of one deferred call on the filesystem.
DeferEffect(f, d) ==
    CASE d.op = "RemoveAll" -> RemoveAll(f, d.path)
      [] d.op = "Remove"    -> Remove(f, d.path)
      [] OTHER              -> f

\* main returns: the deferred calls run, last registered first.
RunDefer ==
    /\ pc = "defers"
    /\ Len(defers) > 0
    /\ fs' = DeferEffect(fs, defers[Len(defers)])
    /\ deleted' = deleted \cup (DOMAIN fs \ DOMAIN fs')
    /\ defers' = SubSeq(defers, 1, Len(defers) - 1)
    /\ UNCHANGED <<synced, hexVars, scanVars, variant, cfg, srcTree, fs0, pc, videos, output, textColor,
                   bgColor, fi, fj, li, listName, calls, encOk, rendered,
                   wrote, concatInput, printed, failed, scanned>>

Exit ==
    /\ pc = "defers"
    /\ Len(defers) = 0
    /\ pc' = "done"
    /\ UNCHANGED <<synced, hexVars, scanVars, variant, cfg, srcTree, fs, fs0, videos, output, textColor,
                   bgColor, fi, fj, li, listName, defers, calls, encOk,
                   rendered, wrote, concatInput, printed, failed, deleted,
                   scanned>>

Next ==
    \/ ReadConfig \/ ParseConfig \/ LoadVideos \/ MkdirIntermediate
    \/ LoadFont \/ RenderFrame \/ FramesDone \/ CreateFileList
    \/ EncodeTransition \/ WriteTransitionEntry \/ WriteVideoEntry
    \/ SyncFileList \/ ConcatInvoke \/ ConcatReturn \/ RunDefer \/ Exit

Spec == Init /\ [][Next]_vars


(***************************************************************************)
(* The colour parsers on their own: every string over HexAlphabet of       *)
(* length at most MaxHexLen.                                               *)
(***************************************************************************)
MaxHexLen == 7

HexAlphabet == {"#", "f", "1", "g", "-"}

RECURSIVE StringsUpTo(_)
StringsUpTo(n) ==
    IF n = 0 THEN {""}
    ELSE LET S == StringsUpTo(n - 1)
         IN  S \cup {s \o c : s \in {t \in S : Len(t) = n - 1}, c \in HexAlphabet}

HexInit ==
    /\ hexIn \in StringsUpTo(MaxHexLen) /\ hexOut = None /\ hexOut2 = None
    /\ ScanIdle /\ MainIdle

ApplyHexToRGBA ==
    /\ pc = "idle"
    /\ hexOut = None
    /\ hexOut' = hexToRGBA(hexIn)
    /\ UNCHANGED <<hexIn, hexOut2, scanVars, mainVars>>

ApplyHexToRGBA2 ==
    /\ pc = "idle"
    /\ hexOut2 = None
    /\ hexOut2' = hexToRGBA2(hexIn)
    /\ UNCHANGED <<hexIn, hexOut, scanVars, mainVars>>

HexNext == ApplyHexToRGBA \/ ApplyHexToRGBA2

SpecHex == HexInit /\ [][HexNext]_vars

(***************************************************************************)
(* getVideoFiles on its own: every tree of fewer than MaxTree entries      *)
(* under the root, walked in every order.                                  *)
(***************************************************************************)
ScanInit ==
    /\ scanTree \in Trees /\ scanWalk = None /\ scanOut = None
    /\ HexIdle /\ MainIdle

ApplyGetVideoFiles ==
    /\ pc = "idle"
    /\ scanOut = None
    /\ \E walk \in Walks(scanTree), walkErr \in BOOLEAN, clean \in BOOLEAN :
         /\ scanWalk' = walk
         /\ scanOut' = getVideoFiles(walk, walkErr, clean)
    /\ UNCHANGED <<scanTree, hexVars, mainVars>>

ScanNext == ApplyGetVideoFiles

SpecScan == ScanInit /\ [][ScanNext]_vars


(***************************************************************************)
(* Properties.                                                             *)
(***************************************************************************)
HasSuffix(s, x) == Len(s) >= Len(x) /\ SubSeq(s, Len(s) - Len(x) + 1, Len(s)) = x

Range(q) == {q[k] : k \in DOMAIN q}

Max0(x) == IF x > 0 THEN x ELSE 0

EncodeCalls == {k \in DOMAIN calls : calls[k].tool = "encode"}

FramesOf(i) == {k \in DOMAIN rendered : rendered[k].i = i}

\* main is past the frame loops and has not returned.
PastFrames ==
    pc \in {"createList", "encode", "writeT", "writeV", "sync", "concat",
            "concatRunning"}

\* The artifacts of the run that are meant to be temporary.
TempArtifacts ==
    {q \in DOMAIN fs : fs[q].by = "run"
                       /\ fs[q].kind \in {"dir", "frame", "filelist", "clip", "partial"}}

\* C1: at process exit no temporary artifact the run produced exists: not
\* the intermediate directory, not a frame, not the file list, not a clip an
\* encode wrote (a clip left by a failed encode included).
C1_NoTempArtifactAtExit ==
    pc = "done" => TempArtifacts = {}

\* C2: the file list handed to the concat holds 2n-1 entries (0 for n = 0),
\* v[0], t[1], v[1], ..., t[n-1], v[n-1]: source videos at the odd places,
\* text_transition_<i>.mp4 at the even ones, and t[i] is a clip whose every
\* frame names the upcoming video v[i].
C2_FileListOrder ==
    concatInput # None =>
        /\ Len(concatInput) = (IF N = 0 THEN 0 ELSE 2 * N - 1)
        /\ \A k \in 1..Len(concatInput) :
             concatInput[k] =
                "file '" \o (IF k % 2 = 1 THEN videos[(k + 1) \div 2]
                             ELSE "text_transition_" \o Itoa(k \div 2) \o ".mp4")
                         \o "'\n"
        /\ pc = "concatRunning" =>
             \A i \in 1..(N - 1) :
                /\ Exists(fs, TextVideo(i))
                /\ fs[TextVideo(i)].kind = "clip"
                /\ Len(fs[TextVideo(i)].data) = Max0(NumFrames)
                /\ \A k \in DOMAIN fs[TextVideo(i)].data :
                     HasSuffix(fs[TextVideo(i)].data[k].text, Base(videos[i + 1]))

C2_Witness ==
    pc = "concatRunning" /\ N = 3 /\ NumFrames = 2 /\ Len(concatInput) = 5

\* C3: once a step has failed nothing of the pipeline happens any more: no
\* frame is rendered, no external tool is invoked, no file list line is
\* written, the success message is not printed; only the deferred cleanup
\* and the exit follow.
C3_FailureAborts ==
    [][failed => /\ rendered' = rendered
                 /\ calls' = calls
                 /\ wrote' = wrote
                 /\ printed' = printed /\ ~printed
                 /\ pc \in {"defers", "done"}
                 /\ pc' \in {"defers", "done"}]_vars

C3_Witness ==
    failed /\ pc = "done" /\ Len(rendered) > 0 /\ Len(calls) > 1 /\ Len(wrote) > 0

\* '#rrggbb': a '#' and exactly six hex digits.
WellFormedHex(h) ==
    /\ Len(h) = 7
    /\ CharAt(h, 1) = "#"
    /\ \A k \in 2..7 : IsHexDigit(CharAt(h, k))

Channel(h, k) == 16 * HexVal(CharAt(h, k)) + HexVal(CharAt(h, k + 1))

\* C4: the colour parser main uses, hexToRGBA, returns opaque black for every
\* malformed string and (r, g, b, 255) only for a well-formed '#rrggbb'.
C4_FallbackOnMalformed ==
    hexOut # None =>
        IF WellFormedHex(hexIn)
        THEN hexOut = <<Channel(hexIn, 2), Channel(hexIn, 4), Channel(hexIn, 6), 255>>
        ELSE hexOut = <<0, 0, 0, 255>>

\* The recognised files of a tree: the non-directories whose name ends, in
\* any case, in one of the four extensions.
Recognised(t) ==
    {e.path : e \in {x \in t : /\ ~x.isDir
                               /\ \E x4 \in {".mp4", ".mov", ".avi", ".mkv"} :
                                     HasSuffix(ToLower(x.path), x4)}}

Ascending(q) == \A k \in 1..(Len(q) - 1) : StrLess(q[k], q[k + 1])

\* C5: getVideoFiles returns exactly the recognised non-directory entries of
\* the tree, each once, in ascending order, whatever the order of the walk.
C5_ScanRecognisedSorted ==
    (scanOut # None /\ ~scanOut.err) =>
        /\ Range(scanOut.videos) = Recognised(scanTree)
        /\ Len(scanOut.videos) = Cardinality(Recognised(scanTree))
        /\ Ascending(scanOut.videos)

\* A walk that met two recognised files in descending order, and a directory
\* named like a video.
C5_Witness ==
    /\ scanOut # None /\ ~scanOut.err
    /\ Len(scanOut.videos) >= 2
    /\ \E a, b \in DOMAIN scanWalk :
          /\ a < b
          /\ scanWalk[a].path \in Range(scanOut.videos)
          /\ scanWalk[b].path \in Range(scanOut.videos)
          /\ StrLess(scanWalk[b].path, scanWalk[a].path)
    /\ \E e \in scanTree : e.isDir /\ e.path = "source/d.mkv"

\* C6: a non-empty explicit source list is processed as given, without a
\* scan; an empty one is replaced by the sorted scan of ./source.
C6_InputResolution ==
    pc = "mkdir" =>
        IF Len(cfg.Source) > 0
        THEN videos = cfg.Source /\ ~scanned
        ELSE /\ scanned
             /\ Range(videos) = Recognised(srcTree)
             /\ Ascending(videos)

\* The name of frame j of transition i: j in five digits, zero-padded.
IsFrameName(path, i, j) ==
    \E pad \in {"", "0", "00", "000", "0000"} :
        /\ Len(pad \o Itoa(j)) = 5
        /\ path = cfg.Dir \o "/text_" \o Itoa(i) \o "_frame_" \o pad \o Itoa(j) \o ".png"

\* Frame generation as a whole, once it is over: frames for the transitions
\* 1..n-1 only, f of them each, numbered 0..f-1 in order, named
\* text_<i>_frame_<j>.png, identical within a transition.
FramesAsSpecified(f) ==
    /\ Len(rendered) = Max0(N - 1) * f
    /\ \A k \in DOMAIN rendered :
         /\ rendered[k].i = 1 + ((k - 1) \div f)
         /\ rendered[k].j = (k - 1) % f
         /\ IsFrameName(rendered[k].path, rendered[k].i, rendered[k].j)
         /\ \A m \in DOMAIN rendered :
              rendered[m].i = rendered[k].i => rendered[m].img = rendered[k].img

\* C7 as stated: R x D frames per transition, and every transition whose
\* encode is invoked has at least one frame, also when R x D <= 0.
C7_FramesAsClaimed ==
    /\ PastFrames => FramesAsSpecified(Max0(NumFrames))
    /\ \A c \in EncodeCalls : Cardinality(FramesOf(calls[c].i)) >= 1

\* C7, amended: max(R x D, 0) frames per transition; a transition whose
\* encode is invoked has exactly that many frames, so at least one if and
\* only if R x D >= 1 (with R x D <= 0 the encode is invoked on no frame).
C7_FramesPerTransition ==
    /\ PastFrames => FramesAsSpecified(Max0(NumFrames))
    /\ \A c \in EncodeCalls :
         /\ Cardinality(FramesOf(calls[c].i)) = Max0(NumFrames)
         /\ (Cardinality(FramesOf(calls[c].i)) >= 1) <=> (NumFrames >= 1)

C7_Witness ==
    /\ pc = "writeT" /\ li = 2 /\ N = 3
    /\ NumFrames = 2 /\ Len(rendered) = 4

\* C8: a run in which nothing failed invoked the tool once per transition,
\* in increasing index, then once for the concat, and nothing else; and a
\* file list line for transition i is only ever written after the encode of
\* i returned nil.
C8_Invocations ==
    /\ (pc = "done" /\ ~failed) =>
         /\ Len(calls) = Max0(N - 1) + 1
         /\ \A k \in 1..Max0(N - 1) : calls[k] = [tool |-> "encode", i |-> k]
         /\ calls[Len(calls)] = [tool |-> "concat", i |-> 0]
    /\ \A k \in DOMAIN wrote :
         wrote[k].transition > 0 =>
            /\ wrote[k].transition \in encOk
            /\ \E c \in EncodeCalls : calls[c].i = wrote[k].transition

C8_Witness ==
    pc = "done" /\ ~failed /\ N = 3 /\ Len(calls) = 3 /\ printed

\* C9: frames before encodes, encodes and the complete, synced file list
\* before the concat, cleanup last: while the concat runs nothing has been
\* deleted and every generated path exists.
C9_PipelineOrder ==
    /\ Len(calls) > 0 =>
         /\ pc # "frames"
         /\ Len(rendered) = Max0(N - 1) * Max0(NumFrames)
    /\ concatInput # None =>
         /\ encOk = 1..(N - 1)
         /\ synced
         /\ Len(wrote) = (IF N = 0 THEN 0 ELSE 2 * N - 1)
         /\ concatInput = [k \in DOMAIN wrote |-> wrote[k].line]
    /\ deleted # {} => pc \in {"defers", "done"}
    /\ pc = "concatRunning" =>
         /\ deleted = {}
         /\ Exists(fs, cfg.Dir)
         /\ Exists(fs, listName)
         /\ \A i \in 1..(N - 1) : Exists(fs, TextVideo(i))
         /\ \A k \in DOMAIN rendered : Exists(fs, rendered[k].path)

C9_Witness ==
    pc = "concatRunning" /\ N = 3 /\ Len(rendered) = 4 /\ Cardinality(encOk) = 2

\* C10: whatever was on disk before the run is still there, untouched, at
\* every moment of the run.
C10_OnlyOwnFilesTouched ==
    \A q \in DOMAIN fs0 : Exists(fs, q) /\ fs[q].by = "user"

====
